---- MODULE Spec2Model ----
(***************************************************************************)
(* A model of src/app.py: the HDB resale dashboard.                        *)
(*                                                                         *)
(*   load_all_data  - one HTTP GET, memoised by st.cache_data              *)
(*   clean_data     - numeric coercion, month parsing, year, dropna        *)
(*   run_dashboard  - one script run: load, clean, sample, town filter,    *)
(*                    year filter, empty check, metrics, chart, table      *)
(*                                                                         *)
(* A table (DataFrame) is a column set and a sequence of rows.  A row      *)
(* carries a multiplicity n: it stands for n consecutive identical         *)
(* records, so that tables of a few hundred records (the slider works in   *)
(* steps of 100) stay small.  head() splits a row when it cuts inside it.  *)
(***************************************************************************)
EXTENDS Integers, Sequences, FiniteSets, TLC

VARIABLES
    \* the clean_data harness: an input table, clean_data of it, and
    \* clean_data of that
    stage, x, once, twice,
    \* the remote API and st.cache_data's entry for load_all_data()
    server, cache, gets,
    \* one run of run_dashboard
    pc, resp, exc, screen, full_df, clean_df, slider, records_to_analyze,
    current_df, selected_towns, town_df, year_slider, year_range,
    filtered_df, metrics, pivot_data, table

cleanVars == <<stage, x, once, twice>>
fetchVars == <<server, cache, gets>>
runVars == <<pc, resp, exc, screen, full_df, clean_df, slider, records_to_analyze,
             current_df, selected_towns, town_df, year_slider, year_range,
             filtered_df, metrics, pivot_data, table>>
vars == <<cleanVars, fetchVars, runVars>>

\* ------------------------------------------------------------------ bounds
MaxRows == 2
MaxBlocks == 2
MaxGets == 2

\* ------------------------------------------------------- program constants
MAX_RECORDS_TO_LOAD == 10000
SLIDER_MIN == 100
SLIDER_DEFAULT_CAP == 2000
SLIDER_STEP == 100

\* ------------------------------------------------------------------- cells
\* A cell is text (a sequence of characters), a number, a date (year*100 +
\* month, day 1) or missing (None / NaN / NaT).
Digits == <<"0", "1", "2", "3", "4", "5", "6", "7", "8", "9">>

IsDigit(c) == \E i \in 1..Len(Digits) : Digits[i] = c

DigitVal(c) == (CHOOSE i \in 1..Len(Digits) : Digits[i] = c) - 1

Str(s) == [kind |-> "str", s |-> s, v |-> 0]
Num(n) == [kind |-> "num", s |-> <<>>, v |-> n]
Date(d) == [kind |-> "date", s |-> <<>>, v |-> d]
NA == [kind |-> "na", s |-> <<>>, v |-> 0]

IsNumericStr(s) == Len(s) > 0 /\ \A i \in 1..Len(s) : IsDigit(s[i])

RECURSIVE StrValue(_)
StrValue(s) ==
    IF s = <<>> THEN 0
    ELSE 10 * StrValue(SubSeq(s, 1, Len(s) - 1)) + DigitVal(s[Len(s)])

\* pd.to_numeric(..., errors='coerce') on one cell: text that is a number
\* becomes that number, any other text becomes missing, a number stays.
\* (to_numeric_again: a coercion that only accepts text.)
to_numeric_again(c) ==
    IF c.kind = "str" /\ IsNumericStr(c.s) THEN Num(StrValue(c.s)) ELSE NA

to_numeric(c) ==
    IF c.kind = "str" THEN (IF IsNumericStr(c.s) THEN Num(StrValue(c.s)) ELSE NA)
    ELSE c

\* The month texts the model feeds in are "YYYY-MM" or not a date at all.
IsMonthStr(s) ==
    /\ Len(s) = 7
    /\ \A i \in {1, 2, 3, 4, 6, 7} : IsDigit(s[i])
    /\ s[5] = "-"
    /\ StrValue(SubSeq(s, 6, 7)) \in 1..12

\* pd.to_datetime on one cell (errors='raise' is the default): a date stays,
\* missing stays missing (NaT), month text becomes the first of that month.
DateRaises(c) == c.kind = "str" /\ ~IsMonthStr(c.s)

to_datetime(c) ==
    IF c.kind = "str"
    THEN Date(100 * StrValue(SubSeq(c.s, 1, 4)) + StrValue(SubSeq(c.s, 6, 7)))
    ELSE c

\* .dt.year
dt_year(c) == IF c.kind = "date" THEN Num(c.v \div 100) ELSE NA

\* ------------------------------------------------------------------ tables
AllCols == {"town", "flat_type", "month", "resale_price", "floor_area_sqm"}

DataFrame(cols, rows) == [tag |-> "df", err |-> "", cols |-> cols, rows |-> rows]
None == [tag |-> "None", err |-> "", cols |-> {}, rows |-> <<>>]
Raised(e) == [tag |-> "raise", err |-> e, cols |-> {}, rows |-> <<>>]

\* df.dropna(subset=['resale_price']): keep the rows whose price is present.
dropna_wrong(rows) == rows

dropna_any(rows) ==
    LET Present(r) == r.resale_price.kind # "na" /\ r.floor_area_sqm.kind # "na"
    IN  SelectSeq(rows, Present)

dropna(rows) ==
    LET Present(r) == r.resale_price.kind # "na" IN SelectSeq(rows, Present)

\* clean_data, lines 32-52.
clean_data(df) ==
    IF df.tag = "None" THEN None
    ELSE
      LET Numeric(r) ==
              [r EXCEPT !.resale_price =
                            IF "resale_price" \in df.cols THEN to_numeric(@) ELSE @,
                        !.floor_area_sqm =
                            IF "floor_area_sqm" \in df.cols THEN to_numeric(@) ELSE @]
          Dated(r) ==
              IF "month" \in df.cols
              THEN [r EXCEPT !.month = to_datetime(@), !.year = dt_year(to_datetime(r.month))]
              ELSE r
          cols1 == IF "month" \in df.cols THEN df.cols \cup {"year"} ELSE df.cols
      IN  IF "month" \in df.cols /\ \E i \in 1..Len(df.rows) : DateRaises(df.rows[i].month)
          THEN Raised("ValueError")
          ELSE IF "resale_price" \notin df.cols
          THEN Raised("KeyError")
          ELSE DataFrame(cols1,
                         dropna([i \in 1..Len(df.rows) |-> Dated(Numeric(df.rows[i]))]))

\* --------------------------------------------------- the clean_data harness
\* Raw tables for clean_data: up to MaxRows records over every mix of
\* numeric text, non-numeric text, numbers and missing values, with and
\* without the month, resale_price and floor_area_sqm columns.
CleanTowns == {"BEDOK", "TAMPINES"}
CleanPrices == {Str(<<"4", "5">>), Str(<<"x">>), Num(38), NA}
CleanAreas == {Str(<<"6", "5">>), Str(<<"x">>)}
CleanMonths == {Str(<<"2", "0", "2", "3", "-", "0", "5">>), Str(<<"x">>), NA}
CleanColSets == {AllCols, AllCols \ {"month"}, AllCols \ {"resale_price"},
                 AllCols \ {"floor_area_sqm"}}

CleanRows(cols) ==
    [town : CleanTowns, flat_type : {"3 ROOM"},
     month : IF "month" \in cols THEN CleanMonths ELSE {NA},
     resale_price : IF "resale_price" \in cols THEN CleanPrices ELSE {NA},
     floor_area_sqm : IF "floor_area_sqm" \in cols THEN CleanAreas ELSE {NA},
     year : {NA}, n : {1}]

\* x is None or a table over one of the column sets.
CleanInputs(df) ==
    \/ df = None
    \/ \E cols \in CleanColSets : \E m \in 0..MaxRows :
          \E rows \in [1..m -> CleanRows(cols)] : df = DataFrame(cols, rows)

\* The state before a dashboard run starts, and while the harness runs.
RunIdle ==
    /\ pc = "idle" /\ resp = "" /\ exc = "" /\ screen = <<>>
    /\ full_df = None /\ clean_df = None /\ current_df = None
    /\ town_df = None /\ filtered_df = None /\ table = None
    /\ slider = [shown |-> FALSE, min |-> 0, max |-> 0, value |-> 0]
    /\ records_to_analyze = 0
    /\ selected_towns = {}
    /\ year_slider = [shown |-> FALSE, min |-> 0, max |-> 0]
    /\ year_range = <<0, 0>>
    /\ metrics = [shown |-> FALSE, price |-> <<0, 0>>, size |-> <<0, 0>>, count |-> 0]
    /\ pivot_data = {}

InitClean ==
    /\ stage = "in" /\ CleanInputs(x) /\ once = None /\ twice = None
    /\ server = DataFrame({}, <<>>) /\ cache = [has |-> FALSE, val |-> None]
    /\ gets = 0
    /\ RunIdle

\* once = clean_data(x)
CleanOnce ==
    /\ stage = "in"
    /\ once' = clean_data(x)
    /\ stage' = "once"
    /\ UNCHANGED <<x, twice, fetchVars, runVars>>

\* twice = clean_data(clean_data(x)); an exception of the inner call is the
\* outcome of the whole expression.
CleanTwice ==
    /\ stage = "once"
    /\ twice' = IF once.tag = "raise" THEN once ELSE clean_data(once)
    /\ stage' = "twice"
    /\ UNCHANGED <<x, once, fetchVars, runVars>>

NextClean == CleanOnce \/ CleanTwice

SpecClean == InitClean /\ [][NextClean]_vars

\* ------------------------------------------------------ table operations
\* df.shape[0]
RECURSIVE RowCount(_)
RowCount(rows) == IF rows = <<>> THEN 0 ELSE Head(rows).n + RowCount(Tail(rows))

\* df.empty
IsEmpty(df) == df.cols = {} \/ RowCount(df.rows) = 0

Min2(a, b) == IF a < b THEN a ELSE b

\* df.head(k): the first k records.
RECURSIVE head(_, _)
head(rows, k) ==
    IF k <= 0 \/ rows = <<>> THEN <<>>
    ELSE IF Head(rows).n <= k THEN <<Head(rows)>> \o head(Tail(rows), k - Head(rows).n)
    ELSE <<[Head(rows) EXCEPT !.n = k]>>

\* current_df['town'].unique()
unique_towns(rows) == {rows[i].town : i \in 1..Len(rows)}

\* current_df[current_df['town'].isin(selected)]
isin(rows, towns) == LET In(r) == r.town \in towns IN SelectSeq(rows, In)

\* Lines 97-100: an empty selection keeps every row.
town_filter_strict(rows, towns) == isin(rows, towns)

town_filter(rows, towns) == IF towns # {} THEN isin(rows, towns) ELSE rows

\* filtered_df['year'].min() / .max(): NaN years are skipped; the result is
\* NaN when no row has a year.
Years(rows) == {rows[i].year.v : i \in {j \in 1..Len(rows) : rows[j].year.kind = "num"}}

SetMin(S) == CHOOSE m \in S : \A y \in S : m <= y

SetMax(S) == CHOOSE m \in S : \A y \in S : m >= y

\* Lines 109-111: (year >= range[0]) & (year <= range[1]); NaN compares false.
year_mask_open(rows, a, b) ==
    LET In(r) == r.year.kind = "num" /\ r.year.v > a /\ r.year.v < b
    IN  SelectSeq(rows, In)

year_mask(rows, a, b) ==
    LET In(r) == r.year.kind = "num" /\ r.year.v >= a /\ r.year.v <= b
    IN  SelectSeq(rows, In)

\* Series.mean(): <<sum, count>> over the present cells (NaN when count = 0).
RECURSIVE ColSum(_, _)
ColSum(rows, col) ==
    IF rows = <<>> THEN <<0, 0>>
    ELSE LET r == Head(rows)
             rest == ColSum(Tail(rows), col)
         IN  IF r[col].kind = "num"
             THEN <<rest[1] + r.n * r[col].v, rest[2] + r.n>>
             ELSE rest

\* groupby(['town', 'flat_type'])['resale_price'].mean().unstack(): one cell
\* per combination present, none for the others.
pivot(rows) ==
    {[town |-> t, flat_type |-> f,
      mean |-> LET G(r) == r.town = t /\ r.flat_type = f
               IN  ColSum(SelectSeq(rows, G), "resale_price")] :
       <<t, f>> \in {<<rows[i].town, rows[i].flat_type>> : i \in 1..Len(rows)}}

\* sort_values(by='resale_price', ascending=False)
RECURSIVE Insert(_, _)
Insert(r, sorted) ==
    IF sorted = <<>> THEN <<r>>
    ELSE IF Head(sorted).resale_price.v >= r.resale_price.v
    THEN <<Head(sorted)>> \o Insert(r, Tail(sorted))
    ELSE <<r>> \o sorted

RECURSIVE sort_values(_)
sort_values(rows) ==
    IF rows = <<>> THEN <<>>
    ELSE Insert(rows[Len(rows)], sort_values(SubSeq(rows, 1, Len(rows) - 1)))

\* ------------------------------------------------------------ the remote API
\* The records the API holds: most recent month first (sort = "month desc"),
\* each standing for 1, 100 or 2500 identical records.
ServerCounts == {1, 100, 2500}

M2023 == Str(<<"2", "0", "2", "3", "-", "0", "5">>)
M2021 == Str(<<"2", "0", "2", "1", "-", "0", "1">>)

ServerRecords ==
    {[town |-> "BEDOK", flat_type |-> "3 ROOM", month |-> M2023,
      resale_price |-> Str(<<"3", "8">>), floor_area_sqm |-> Str(<<"6", "5">>)],
     [town |-> "BEDOK", flat_type |-> "4 ROOM", month |-> M2023,
      resale_price |-> Str(<<"x">>), floor_area_sqm |-> Str(<<"9", "0">>)],
     [town |-> "TAMPINES", flat_type |-> "3 ROOM", month |-> M2021,
      resale_price |-> Str(<<"4", "5">>), floor_area_sqm |-> Str(<<"x">>)]}

ServerRows(cols) ==
    {[town |-> r.town, flat_type |-> r.flat_type,
      month |-> IF "month" \in cols THEN r.month ELSE NA,
      resale_price |-> r.resale_price, floor_area_sqm |-> r.floor_area_sqm,
      year |-> NA, n |-> k] : r \in ServerRecords, k \in ServerCounts}

MonthDesc(rows) ==
    \A i \in 1..(Len(rows) - 1) :
        (rows[i].month.kind = "str" /\ rows[i + 1].month.kind = "str") =>
            to_datetime(rows[i].month).v >= to_datetime(rows[i + 1].month).v

\* An empty records array gives a table without columns.
ServerTables(df) ==
    \/ df = DataFrame({}, <<>>)
    \/ \E cols \in {AllCols, AllCols \ {"month"}} : \E m \in 1..MaxBlocks :
          \E rows \in [1..m -> ServerRows(cols)] :
             /\ MonthDesc(rows)
             /\ RowCount(rows) <= MAX_RECORDS_TO_LOAD
             /\ df = DataFrame(cols, rows)

\* ------------------------------------------------------------ run_dashboard
Terminal == {"done", "stopped", "crashed"}

Init ==
    /\ stage = "off" /\ x = None /\ once = None /\ twice = None
    /\ ServerTables(server)
    /\ cache = [has |-> FALSE, val |-> None]
    /\ gets = 0
    /\ RunIdle

\* An exception nobody catches ends the script run.
Crash(e) == pc' = "crashed" /\ exc' = e

\* The script runs from the top: at start, and again on every interaction.
StartRun ==
    /\ stage = "off"
    /\ pc \in Terminal \cup {"idle"}
    /\ pc' = "load" /\ resp' = "" /\ exc' = "" /\ screen' = <<>>
    /\ full_df' = None /\ clean_df' = None /\ current_df' = None
    /\ town_df' = None /\ filtered_df' = None /\ table' = None
    /\ slider' = [shown |-> FALSE, min |-> 0, max |-> 0, value |-> 0]
    /\ records_to_analyze' = 0
    /\ selected_towns' = {}
    /\ year_slider' = [shown |-> FALSE, min |-> 0, max |-> 0]
    /\ year_range' = <<0, 0>>
    /\ metrics' = [shown |-> FALSE, price |-> <<0, 0>>, size |-> <<0, 0>>, count |-> 0]
    /\ pivot_data' = {}
    /\ UNCHANGED <<cleanVars, fetchVars>>

afterLoad == <<clean_df, slider, records_to_analyze, current_df, selected_towns,
               town_df, year_slider, year_range, filtered_df, metrics, pivot_data,
               table>>

\* load_all_data() with an entry in st.cache_data: the stored value comes
\* back, with the st.error the function showed, and no request is made.
LoadCached ==
    /\ pc = "load" /\ cache.has
    /\ full_df' = cache.val
    /\ screen' = IF cache.val = None THEN Append(screen, "error") ELSE screen
    /\ resp' = "cached"
    /\ pc' = "loaded"
    /\ UNCHANGED <<cleanVars, fetchVars, exc, afterLoad>>

\* Lines 22-26: the GET succeeds and the body holds result.records.
FetchOk ==
    /\ pc = "load" /\ ~cache.has /\ gets < MaxGets
    /\ gets' = gets + 1
    /\ resp' = "ok"
    /\ full_df' = server
    /\ cache' = [has |-> TRUE, val |-> server]
    /\ pc' = "loaded"
    /\ UNCHANGED <<cleanVars, server, exc, screen, afterLoad>>

\* The function returns None after st.error, and None is what is stored.
ReturnNone(kind) ==
    /\ resp' = kind
    /\ screen' = Append(screen, "error")
    /\ full_df' = None
    /\ cache' = [has |-> TRUE, val |-> None]
    /\ pc' = "loaded"
    /\ UNCHANGED exc

\* Lines 23-24, 28-30: requests.get raises (network) or raise_for_status
\* raises (HTTP status): a RequestException, caught.
FetchRequestException ==
    /\ pc = "load" /\ ~cache.has /\ gets < MaxGets
    /\ gets' = gets + 1
    /\ \E kind \in {"network_error", "http_error"} : ReturnNone(kind)
    /\ UNCHANGED <<cleanVars, server, afterLoad>>

\* Line 25: the body is no JSON.  response.json() raises a JSONDecodeError
\* that is a RequestException in requests >= 2.27 (caught) and a plain
\* ValueError before (not caught).
FetchBadJson ==
    /\ pc = "load" /\ ~cache.has /\ gets < MaxGets
    /\ gets' = gets + 1
    /\ \E caught \in BOOLEAN :
          IF caught THEN ReturnNone("bad_json")
          ELSE /\ resp' = "bad_json"
               /\ Crash("JSONDecodeError")
               /\ UNCHANGED <<screen, full_df, cache>>
    /\ UNCHANGED <<cleanVars, server, afterLoad>>

\* Line 26: the body is JSON without result.records: the subscript raises
\* KeyError, which the except clause does not name.  Nothing is stored.
FetchNoRecords ==
    /\ pc = "load" /\ ~cache.has /\ gets < MaxGets
    /\ gets' = gets + 1
    /\ resp' = "no_records"
    /\ Crash("KeyError")
    /\ UNCHANGED <<cleanVars, server, cache, screen, full_df, afterLoad>>

\* Lines 77-78: nothing loaded, st.stop().
StopNoData ==
    /\ pc = "loaded"
    /\ full_df = None \/ IsEmpty(full_df)
    /\ pc' = "stopped"
    /\ UNCHANGED <<cleanVars, fetchVars, resp, exc, screen, full_df, afterLoad>>

\* Line 80.
Clean ==
    /\ pc = "loaded"
    /\ ~(full_df = None \/ IsEmpty(full_df))
    /\ LET c == clean_data(full_df)
       IN  IF c.tag = "raise"
           THEN Crash(c.err) /\ UNCHANGED clean_df
           ELSE clean_df' = c /\ pc' = "slider" /\ UNCHANGED exc
    /\ UNCHANGED <<cleanVars, fetchVars, resp, screen, full_df, slider,
                   records_to_analyze, current_df, selected_towns, town_df,
                   year_slider, year_range, filtered_df, metrics, pivot_data, table>>

\* Lines 86-90: the arguments of the sample-size slider.
max_slider_val == Min2(RowCount(clean_df.rows), MAX_RECORDS_TO_LOAD)

SliderArgs ==
    [shown |-> TRUE, min |-> SLIDER_MIN, max |-> max_slider_val,
     value |-> Min2(SLIDER_DEFAULT_CAP, max_slider_val)]

\* The positions the model lets the user pick: the first, the last one on
\* the step grid, and the default.
SliderPicks(a) ==
    {a.min, a.value, a.min + ((a.max - a.min) \div SLIDER_STEP) * SLIDER_STEP}

afterSlider == <<selected_towns, town_df, year_slider, year_range, filtered_df,
                 metrics, pivot_data, table>>

\* Lines 87-91 when 100 <= max_slider_val.
SampleSlider ==
    /\ pc = "slider"
    /\ SliderArgs.min <= SliderArgs.max
    /\ slider' = SliderArgs
    /\ \E k \in SliderPicks(SliderArgs) :
          /\ records_to_analyze' = k
          /\ current_df' = DataFrame(clean_df.cols, head(clean_df.rows, k))
    /\ pc' = "towns"
    /\ UNCHANGED <<cleanVars, fetchVars, resp, exc, screen, full_df, clean_df,
                   afterSlider>>

\* Lines 87-91 when max_slider_val < 100: the slider is given a minimum
\* above its maximum and its value.  Streamlit either rejects the arguments
\* (StreamlitAPIException) or widens the range around the value and returns
\* the value.
SampleSliderBelowMin ==
    /\ pc = "slider"
    /\ SliderArgs.min > SliderArgs.max
    /\ slider' = SliderArgs
    /\ \E rejected \in BOOLEAN :
          IF rejected
          THEN /\ Crash("StreamlitAPIException")
               /\ UNCHANGED <<records_to_analyze, current_df>>
          ELSE /\ records_to_analyze' = SliderArgs.value
               /\ current_df' = DataFrame(clean_df.cols,
                                          head(clean_df.rows, SliderArgs.value))
               /\ pc' = "towns"
               /\ UNCHANGED exc
    /\ UNCHANGED <<cleanVars, fetchVars, resp, screen, full_df, clean_df, afterSlider>>

\* Lines 94-100: the multiselect offers the towns of current_df; the user
\* keeps any of them, or none.
TownSelect ==
    /\ pc = "towns"
    /\ \E sel \in SUBSET unique_towns(current_df.rows) :
          /\ selected_towns' = sel
          /\ filtered_df' = DataFrame(current_df.cols, town_filter(current_df.rows, sel))
          /\ town_df' = DataFrame(current_df.cols, town_filter(current_df.rows, sel))
    /\ pc' = "year"
    /\ UNCHANGED <<cleanVars, fetchVars, resp, exc, screen, full_df, clean_df, slider,
                   records_to_analyze, current_df, year_slider, year_range, metrics,
                   pivot_data, table>>

yearFrame == <<cleanVars, fetchVars, resp, full_df, clean_df, slider,
               records_to_analyze, current_df, selected_towns, town_df, metrics,
               pivot_data, table>>

\* Line 103 false: no year column, no year filter.
YearSkip ==
    /\ pc = "year"
    /\ "year" \notin clean_df.cols
    /\ pc' = "empty"
    /\ UNCHANGED <<yearFrame, exc, screen, year_slider, year_range, filtered_df>>

\* Lines 104-105 when no row of filtered_df has a year: min() is NaN and
\* int(NaN) raises ValueError.
YearNaN ==
    /\ pc = "year"
    /\ "year" \in clean_df.cols
    /\ Years(filtered_df.rows) = {}
    /\ Crash("ValueError")
    /\ UNCHANGED <<yearFrame, screen, year_slider, year_range, filtered_df>>

\* Lines 107-111: the range slider, and the rows inside the chosen range.
YearSlider ==
    /\ pc = "year"
    /\ "year" \in clean_df.cols
    /\ Years(filtered_df.rows) # {}
    /\ LET min_year == SetMin(Years(filtered_df.rows))
           max_year == SetMax(Years(filtered_df.rows))
       IN  /\ min_year < max_year
           /\ year_slider' = [shown |-> TRUE, min |-> min_year, max |-> max_year]
           /\ \E a \in min_year..max_year : \E b \in a..max_year :
                 /\ year_range' = <<a, b>>
                 /\ filtered_df' = DataFrame(filtered_df.cols,
                                             year_mask(filtered_df.rows, a, b))
    /\ pc' = "empty"
    /\ UNCHANGED <<yearFrame, exc, screen>>

\* Lines 112-113: a single year, st.sidebar.info and no filter.
YearInfo ==
    /\ pc = "year"
    /\ "year" \in clean_df.cols
    /\ Years(filtered_df.rows) # {}
    /\ ~(SetMin(Years(filtered_df.rows)) < SetMax(Years(filtered_df.rows)))
    /\ screen' = Append(screen, "sidebar_info")
    /\ pc' = "empty"
    /\ UNCHANGED <<yearFrame, exc, year_slider, year_range, filtered_df>>

viewFrame == <<cleanVars, fetchVars, resp, exc, full_df, clean_df, slider,
               records_to_analyze, current_df, selected_towns, town_df, year_slider,
               year_range, filtered_df>>

\* Lines 115-117: st.warning and st.stop().
WarnNoData ==
    /\ pc = "empty"
    /\ IsEmpty(filtered_df)
    /\ screen' = Append(screen, "warning")
    /\ pc' = "stopped"
    /\ UNCHANGED <<viewFrame, metrics, pivot_data, table>>

\* Lines 121-124: the three metrics.
Metrics ==
    /\ pc = "empty"
    /\ ~IsEmpty(filtered_df)
    /\ metrics' = [shown |-> TRUE,
                   price |-> ColSum(filtered_df.rows, "resale_price"),
                   size |-> ColSum(filtered_df.rows, "floor_area_sqm"),
                   count |-> RowCount(filtered_df.rows)]
    /\ screen' = Append(screen, "metrics")
    /\ pc' = "chart"
    /\ UNCHANGED <<viewFrame, pivot_data, table>>

\* Lines 133-147: the pivot is computed and drawn.
ChartOk ==
    /\ pc = "chart"
    /\ pivot_data' = pivot(filtered_df.rows)
    /\ screen' = Append(screen, "chart")
    /\ pc' = "table"
    /\ UNCHANGED <<viewFrame, metrics, table>>

\* Lines 149-150: anything raised while computing or drawing is caught and
\* st.info takes the chart's place; the script goes on to the next tab.
ChartFails_stops ==
    /\ pc = "chart"
    /\ screen' = Append(screen, "chart_info")
    /\ pc' = "stopped"
    /\ UNCHANGED <<viewFrame, metrics, pivot_data, table>>

ChartFails ==
    /\ pc = "chart"
    /\ screen' = Append(screen, "chart_info")
    /\ pc' = "table"
    /\ UNCHANGED <<viewFrame, metrics, pivot_data, table>>

\* Lines 152-153: the table, highest price first.
RawData ==
    /\ pc = "table"
    /\ table' = DataFrame(filtered_df.cols, sort_values(filtered_df.rows))
    /\ screen' = Append(screen, "dataframe")
    /\ pc' = "done"
    /\ UNCHANGED <<viewFrame, metrics, pivot_data>>

Next ==
    \/ StartRun
    \/ LoadCached \/ FetchOk \/ FetchRequestException \/ FetchNoRecords \/ FetchBadJson
    \/ StopNoData \/ Clean
    \/ SampleSlider \/ SampleSliderBelowMin
    \/ TownSelect
    \/ YearSkip \/ YearNaN \/ YearSlider \/ YearInfo
    \/ WarnNoData \/ Metrics
    \/ ChartOk \/ ChartFails
    \/ RawData

Spec == Init /\ [][Next]_vars

\* --------------------------------------------------------------- claims
ParsesAsNumber(c) == c.kind = "num" \/ (c.kind = "str" /\ IsNumericStr(c.s))

NumberOf(c) == IF c.kind = "num" THEN c.v ELSE StrValue(c.s)

\* C1: every row of the table clean_data returns has a resale_price that
\* is a number, never missing, whatever mix of numeric text, non-numeric
\* text and missing values the raw resale_price column holds.
C1_NoMissingPrice ==
    (stage # "in" /\ once.tag = "df") =>
        \A i \in 1..Len(once.rows) : once.rows[i].resale_price.kind = "num"

C1_Witness ==
    /\ stage = "once" /\ once.tag = "df" /\ Len(once.rows) = 1
    /\ \E i, j \in 1..Len(x.rows) :
          /\ x.rows[i].resale_price \in {NA, Str(<<"x">>)}
          /\ x.rows[j].resale_price = Str(<<"4", "5">>)

\* C2: clean_data is idempotent: clean_data(clean_data(x)) is the same
\* table as clean_data(x) (same rows, order and values), also for None.
C2_Idempotent == stage = "twice" => twice = once

C2_Witness ==
    /\ stage = "twice" /\ once.tag = "df" /\ "year" \in once.cols
    /\ Len(once.rows) >= 1 /\ Len(x.rows) > Len(once.rows)

\* C10: dropping on a missing price is the only row-dropping step: the
\* result holds exactly the input rows whose resale_price is a number, in
\* their order; a kept row's floor_area_sqm is its number or, when it does
\* not parse, missing; town and flat_type are unchanged; and clean_data
\* raises only for month text that is no date, never for a non-numeric
\* price or area.
C10_OnlyPriceDrops ==
    (stage # "in" /\ x.tag = "df" /\ "resale_price" \in x.cols) =>
        LET Kept(r) == ParsesAsNumber(r.resale_price)
            kept == SelectSeq(x.rows, Kept)
        IN  /\ once.tag = "raise" <=>
                  ("month" \in x.cols /\
                   \E i \in 1..Len(x.rows) : DateRaises(x.rows[i].month))
            /\ once.tag = "df" =>
                  /\ Len(once.rows) = Len(kept)
                  /\ \A i \in 1..Len(kept) :
                        /\ once.rows[i].town = kept[i].town
                        /\ once.rows[i].flat_type = kept[i].flat_type
                        /\ once.rows[i].n = kept[i].n
                        /\ once.rows[i].resale_price = Num(NumberOf(kept[i].resale_price))
                        /\ once.rows[i].floor_area_sqm =
                              IF "floor_area_sqm" \notin x.cols THEN kept[i].floor_area_sqm
                              ELSE IF ParsesAsNumber(kept[i].floor_area_sqm)
                              THEN Num(NumberOf(kept[i].floor_area_sqm))
                              ELSE NA

C10_Witness ==
    /\ stage = "once" /\ once.tag = "df" /\ Len(x.rows) = 2 /\ Len(once.rows) = 1
    /\ x.rows[2].floor_area_sqm = Str(<<"x">>)
    /\ x.rows[2].town = "TAMPINES"
    /\ once.rows[1].floor_area_sqm = NA
    /\ once.rows[1].town = "TAMPINES"

Shown(e) == \E i \in 1..Len(screen) : screen[i] = e

\* C3: the town filter with an empty selection returns the sampled table
\* unchanged; with a non-empty selection it returns exactly the sampled rows
\* whose town is selected, in order.
C3_TownFilter ==
    town_df.tag = "df" =>
        /\ town_df.cols = current_df.cols
        /\ selected_towns = {} => town_df.rows = current_df.rows
        /\ selected_towns # {} =>
              /\ \A i \in 1..Len(town_df.rows) : town_df.rows[i].town \in selected_towns
              /\ LET Member(r) == r.town \in selected_towns
                 IN  town_df.rows = SelectSeq(current_df.rows, Member)

C3_Witness ==
    /\ pc = "year" /\ selected_towns = {}
    /\ Cardinality(unique_towns(current_df.rows)) = 2
    /\ filtered_df = current_df

\* C4: when the year slider is shown, the view is exactly the town-filtered
\* rows whose year lies in the chosen range, both ends included, and the
\* cleaned table spans more than one year; when the slider is not shown the
\* town-filtered rows pass through; a cleaned table of a single year never
\* gets the slider.
C4_YearFilter ==
    LET cy == Years(clean_df.rows)
        single == cy # {} /\ SetMin(cy) = SetMax(cy)
    IN  /\ (town_df.tag = "df" /\ pc \notin {"year", "crashed"}) =>
              /\ year_slider.shown =>
                    /\ LET InRange(r) == /\ r.year.kind = "num"
                                         /\ year_range[1] <= r.year.v
                                         /\ r.year.v <= year_range[2]
                       IN  filtered_df.rows = SelectSeq(town_df.rows, InRange)
                    /\ filtered_df.cols = town_df.cols
                    /\ cy # {} /\ SetMin(cy) < SetMax(cy)
              /\ ~year_slider.shown => filtered_df = town_df
              /\ single => ~year_slider.shown
        /\ (pc = "crashed" /\ exc = "ValueError") => ~single

C4_Witness ==
    /\ pc = "empty" /\ year_slider.shown
    /\ year_range[1] = year_range[2]
    /\ filtered_df.rows # <<>>
    /\ Len(filtered_df.rows) < Len(town_df.rows)

\* C5: a run whose view is empty ends with the "no data" warning: no
\* exception, no metrics.
C5_EmptyViewWarns ==
    (/\ pc \in Terminal
     /\ clean_df.tag = "df"
     /\ \/ RowCount(clean_df.rows) = 0
        \/ (filtered_df.tag = "df" /\ IsEmpty(filtered_df))) =>
        /\ exc = ""
        /\ Shown("warning")
        /\ ~metrics.shown

\* C6: a network error, a bad HTTP status and a malformed body (no JSON, or
\* JSON without result.records) all end in the failure outcome: st.error,
\* None to the caller, no exception, and the run halts before cleaning.
C6_FetchFailureHandled ==
    resp \in {"network_error", "http_error", "bad_json", "no_records"} =>
        /\ exc = ""
        /\ full_df = None
        /\ Shown("error")
        /\ pc \in {"loaded", "stopped"}
        /\ clean_df = None

\* C7: the GET is issued at most once in the life of the process, and the
\* stored table is the one fetched.
C7_FetchedOnce ==
    /\ gets <= 1
    /\ (cache.has /\ cache.val # None) => cache.val = server

\* C8: the sample-size slider's default and the value it returns lie in
\* [100, min(rowCount, 10000)].
C8_SampleSizeInRange ==
    slider.shown =>
        /\ slider.max = Min2(RowCount(clean_df.rows), MAX_RECORDS_TO_LOAD)
        /\ slider.min <= slider.value /\ slider.value <= slider.max
        /\ current_df.tag = "df" =>
              (slider.min <= records_to_analyze /\ records_to_analyze <= slider.max)

\* C9: when the chart fails, the message takes the chart's place and
\* nothing else changes: the metrics are on screen before it, the run goes
\* on to the raw-data table, sorted by price from the highest, and the
\* "no data" warning is not shown.
C9_ChartFailureIsolated ==
    Shown("chart_info") =>
        /\ pc \in {"table", "done"}
        /\ exc = ""
        /\ metrics.shown
        /\ \E i, j \in 1..Len(screen) :
              i < j /\ screen[i] = "metrics" /\ screen[j] = "chart_info"
        /\ ~Shown("warning") /\ ~Shown("chart")
        /\ ~IsEmpty(filtered_df)
        /\ pc = "done" =>
              /\ screen[Len(screen)] = "dataframe"
              /\ RowCount(table.rows) = RowCount(filtered_df.rows)
              /\ \A i \in 1..(Len(table.rows) - 1) :
                    table.rows[i].resale_price.v >= table.rows[i + 1].resale_price.v

C9_Witness ==
    /\ pc = "done" /\ Shown("chart_info")
    /\ Len(table.rows) >= 2
    /\ table.rows # filtered_df.rows

====
